---- MODULE Spec2Model ----
(***************************************************************************)
(* Model of tasks/split_pdfs.py: the split_pdfs orchestrator, the worker   *)
(* jobs running process_volume, and the helpers get_cases_metadata,        *)
(* download_pdf, split_pdf and upload_case_pdfs.                           *)
(*                                                                         *)
(* The storage client and the PDF library are the environment: the         *)
(* content of the read bucket is fixed by Init, while a failure of a call  *)
(* (a storage error, an unreadable PDF, a failed write) is drawn with \E   *)
(* in the action that makes the call.                                      *)
(***************************************************************************)
EXTENDS Integers, Sequences, FiniteSets, TLC

\* ------------------------------------------------------------------ bounds
\* Number of volumes get_volumes_to_process resolves in a pool run.
NumVolumes == 2
\* max_workers of the ThreadPoolExecutor (os.cpu_count() of the machine).
MaxWorkers == 2
\* Longest CasesMetadata.json a single-volume run is given.
MaxCases == 3
\* Page count of the source PDF in pipeline runs.
VolPages == 2
\* Largest page count / page ordinal in runs of split_pdf alone.
MaxPages == 5
\* Longest catalog get_volumes_to_process is given.
MaxCatalog == 2

VARIABLES
    volumes,        \* volumes_to_process: sequence of volume records
    bucket,         \* READ_BUCKET content per volume: zip, json, pdf
    pc,             \* per job: position of the worker in process_volume
    cases_metadata, \* per job: local cases_metadata of process_volume
    case_pdfs,      \* per job: local case_pdfs of process_volume
    up_i,           \* per job: index of the upload_case_pdfs loop
    tmpfiles,       \* temporary files present on local disk
    requests,       \* per job: READ_BUCKET keys requested so far
    attempts,       \* per job: upload_file calls made, with their outcome
    write_bucket,   \* keys stored in WRITE_BUCKET
    ret,            \* per job: value returned by process_volume
    printed,        \* per job: skip message printed by process_volume
    o_pc,           \* position of split_pdfs
    submitted,      \* number of executor.submit calls made
    o_log,          \* per job: line split_pdfs printed when draining it
    summary,        \* N of the final "Processed N volumes." line, -1 before
    in_pages,       \* split_pdf alone: page count of the source PDF
    in_cases,       \* split_pdf alone: cases_metadata argument
    out_split,      \* split_pdf alone: what the call produced
    out_again,      \* split_pdf alone: what a second call on the same input produced
    downloaded,     \* per job: download_file has filled the file at pdf_path
    meta_in,        \* get_cases_metadata alone: the read bucket of the volume
    meta_out,       \* get_cases_metadata alone: what the call did
    res_in,         \* get_volumes_to_process alone: selectors and catalog
    res_out         \* get_volumes_to_process alone: what the call did

vars == <<volumes, bucket, pc, cases_metadata, case_pdfs, up_i, tmpfiles,
          requests, attempts, write_bucket, ret, printed, o_pc, submitted,
          o_log, summary, in_pages, in_cases, out_split, out_again,
          downloaded, meta_in, meta_out, res_in, res_out>>

pipeVars == <<volumes, bucket, pc, cases_metadata, case_pdfs, up_i, tmpfiles,
              requests, attempts, write_bucket, ret, printed, o_pc,
              submitted, o_log, summary, downloaded>>

splitVars == <<in_pages, in_cases, out_split, out_again>>

metaVars == <<meta_in, meta_out>>

resVars == <<res_in, res_out>>

Vols == 1..Len(volumes)

\* ------------------------------------------------------------ data model
Sources == {"Fastcase", "Harvard"}

CaseRecord(name, f, l, src) ==
    [file_name |-> name, first_page_order |-> f, last_page_order |-> l,
     provenance |-> [source |-> src]]

\* A parsed metadata value: None (present = FALSE) or a list of cases.
None == [present |-> FALSE, cases |-> <<>>]

Some(cs) == [present |-> TRUE, cases |-> cs]

\* Python truthiness of cases_metadata: None and [] are falsy.
Truthy(m) == m.present /\ Len(m.cases) > 0

\* Temporary file names: one per NamedTemporaryFile call of job v.
PdfPath(v) == <<v, 0>>

CasePath(v, i) == <<v, i>>

\* ------------------------------------------------ get_cases_metadata
\* An object of the read bucket: state is "ok" (exists and parses, holding
\* cases), "absent" (NoSuchKey), or a defect of an existing object:
\* "corrupt" (not a zip archive), "noentry" (an archive with no entry ending
\* in CasesMetadata.json), "badjson" (the JSON does not parse).
Obj(state, cs) == [state |-> state, cases |-> cs]

Absent == Obj("absent", <<>>)

\* Lines 90-101, the body of the outer try: exc is the exception it ends
\* with ("none": it ended normally, with value). A missing key raises
\* NoSuchKey; a storage error, a file that is no zip archive and JSON that
\* does not parse raise other exceptions; an archive without the entry
\* prints and falls off the end of the function, which returns None.
TryPacked(b, errZip) ==
    CASE errZip -> [exc |-> "Exception", value |-> None]
      [] b.zip.state = "absent" -> [exc |-> "NoSuchKey", value |-> None]
      [] b.zip.state = "ok" -> [exc |-> "none", value |-> Some(b.zip.cases)]
      [] b.zip.state = "noentry" -> [exc |-> "none", value |-> None]
      [] OTHER -> [exc |-> "Exception", value |-> None]

\* Lines 105-106, the body of the inner try: NoSuchKey is an Exception here.
TryUnpacked(b, errJson) ==
    IF errJson \/ b.json.state # "ok"
    THEN [exc |-> "Exception", value |-> None]
    ELSE [exc |-> "none", value |-> Some(b.json.cases)]

\* The except NoSuchKey branch: the unzipped key is fetched; any failure of
\* that fetch or of json.loads returns None.
get_unzipped(b, errJson) ==
    IF TryUnpacked(b, errJson).exc # "none" THEN None ELSE TryUnpacked(b, errJson).value

\* get_cases_metadata where every exception of the packed path, not only
\* NoSuchKey, leads to the unzipped key.
get_cases_metadata_AnyError(b, errZip, errJson) ==
    IF TryPacked(b, errZip).exc # "none"
    THEN [value |-> get_unzipped(b, errJson), keys |-> {"zip", "json"}, raised |-> FALSE]
    ELSE [value |-> TryPacked(b, errZip).value, keys |-> {"zip"}, raised |-> FALSE]

\* get_cases_metadata without the outer except Exception clause.
get_cases_metadata_NoCatch(b, errZip, errJson) ==
    CASE TryPacked(b, errZip).exc = "NoSuchKey" ->
             [value |-> get_unzipped(b, errJson), keys |-> {"zip", "json"}, raised |-> FALSE]
      [] TryPacked(b, errZip).exc = "Exception" ->
             [value |-> None, keys |-> {"zip"}, raised |-> TRUE]
      [] OTHER -> [value |-> TryPacked(b, errZip).value, keys |-> {"zip"}, raised |-> FALSE]

\* get_cases_metadata(s3_client, bucket, volume): value is what it returns,
\* keys the objects it requested, raised whether an exception left it.
\* errZip / errJson: the get_object call fails with an error other than
\* NoSuchKey.
get_cases_metadata(b, errZip, errJson) ==
    CASE TryPacked(b, errZip).exc = "NoSuchKey" ->
             [value |-> get_unzipped(b, errJson), keys |-> {"zip", "json"}, raised |-> FALSE]
      [] TryPacked(b, errZip).exc = "Exception" ->
             [value |-> None, keys |-> {"zip"}, raised |-> FALSE]
      [] OTHER -> [value |-> TryPacked(b, errZip).value, keys |-> {"zip"}, raised |-> FALSE]

\* ------------------------------------------------------------ split_pdf
\* PdfReader(pdf_path).pages for a document of n pages; a page is named by
\* its 1-based number, and sits at 0-based index number - 1.
ReaderPages(n) == [i \in 1..n |-> i]

\* reader.pages[page_num]: a negative index counts from the end, an index
\* outside the document raises IndexError.
NormIndex(reader, page_num) ==
    IF page_num < 0 THEN page_num + Len(reader) ELSE page_num

ValidIndex(reader, page_num) ==
    NormIndex(reader, page_num) >= 0 /\ NormIndex(reader, page_num) < Len(reader)

PageAt(reader, page_num) == reader[NormIndex(reader, page_num) + 1]

\* CasePages with last_page_order taken as exclusive: the last page is lost.
CasePages_HalfOpen(reader, case) ==
    LET start_page == case.first_page_order - 1
        end_page == case.last_page_order - 1
    IN  [k \in 1..(end_page - start_page) |-> PageAt(reader, start_page + k - 1)]

\* CasePages with first_page_order used as a 0-based index, the last page
\* kept: the first page is lost.
CasePages_NoShift(reader, case) ==
    LET start_page == case.first_page_order
        end_page == case.last_page_order
    IN  [k \in 1..(end_page - start_page) |-> PageAt(reader, start_page + k - 1)]

\* The writer of one case: pages range(start_page, end_page) of the reader.
CasePages(reader, case) ==
    LET start_page == case.first_page_order - 1
        end_page == case.last_page_order
    IN  [k \in 1..(end_page - start_page) |-> PageAt(reader, start_page + k - 1)]

\* Whether some reader.pages[page_num] of the case's loop raises.
CaseRaises(reader, case) ==
    \E page_num \in (case.first_page_order - 1)..(case.last_page_order - 1) :
        ~ValidIndex(reader, page_num)

\* Excluded with the provenance test left out: every record is split.
Excluded_Never(case) == FALSE

\* Line 161: the record is skipped when its provenance source is Fastcase.
Excluded(case) == case.provenance.source = "Fastcase"

\* SplitLoop with the page error caught per case: the bad record is
\* skipped and the loop goes on.
RECURSIVE SplitLoop_SkipBad(_, _, _, _, _, _)
SplitLoop_SkipBad(reader, cases, i, acc, made, failAt) ==
    IF i > Len(cases)
    THEN [raised |-> FALSE, case_pdfs |-> acc, created |-> made]
    ELSE IF Excluded(cases[i]) \/ CaseRaises(reader, cases[i])
    THEN SplitLoop_SkipBad(reader, cases, i + 1, acc, made, failAt)
    ELSE IF failAt = i
    THEN [raised |-> TRUE, case_pdfs |-> <<>>, created |-> made \cup {i}]
    ELSE SplitLoop_SkipBad(reader, cases, i + 1,
                   Append(acc, [file_name |-> cases[i].file_name, path |-> i,
                                pages |-> CasePages(reader, cases[i])]),
                   made \cup {i}, failAt)

\* The for loop of split_pdf from case i on. acc is case_pdfs so far, made
\* the temporary files created so far (named by case index). failAt is the
\* case whose writer.write fails (0: none), after its file was created.
RECURSIVE SplitLoop(_, _, _, _, _, _)
SplitLoop(reader, cases, i, acc, made, failAt) ==
    IF i > Len(cases)
    THEN [raised |-> FALSE, case_pdfs |-> acc, created |-> made]
    ELSE IF Excluded(cases[i])
    THEN SplitLoop(reader, cases, i + 1, acc, made, failAt)
    ELSE IF CaseRaises(reader, cases[i])
    THEN [raised |-> TRUE, case_pdfs |-> <<>>, created |-> made]
    ELSE IF failAt = i
    THEN [raised |-> TRUE, case_pdfs |-> <<>>, created |-> made \cup {i}]
    ELSE SplitLoop(reader, cases, i + 1,
                   Append(acc, [file_name |-> cases[i].file_name, path |-> i,
                                pages |-> CasePages(reader, cases[i])]),
                   made \cup {i}, failAt)

\* split_pdf(pdf_path, cases_metadata) on a source of num_pages pages.
\* readerOk: PdfReader(pdf_path) succeeds.
split_pdf(num_pages, cases, readerOk, failAt) ==
    IF ~readerOk
    THEN [raised |-> TRUE, case_pdfs |-> <<>>, created |-> {}]
    ELSE SplitLoop(ReaderPages(num_pages), cases, 1, <<>>, {}, failAt)

\* ----------------------------------------------------- upload_case_pdfs
\* UploadKey under another folder name than case-pdfs.
UploadKey_WrongPrefix(volume, case_name) ==
    <<volume.reporter_slug, volume.volume_folder, "pdfs", case_name>>

\* The destination key f"{reporter_slug}/{volume_folder}/case-pdfs/{case_name}.pdf".
UploadKey(volume, case_name) ==
    <<volume.reporter_slug, volume.volume_folder, "case-pdfs", case_name>>

\* AllFastcase with the test left out: no volume is skipped as all-Fastcase.
AllFastcase_Never(cases) == FALSE

\* AllFastcase comparing against a tag no record carries.
AllFastcase_WrongTag(cases) ==
    \A i \in 1..Len(cases) : cases[i].provenance.source = "fastcase"

\* The all([...]) test of process_volume.
AllFastcase(cases) == \A i \in 1..Len(cases) : cases[i].provenance.source = "Fastcase"

\* ------------------------------------------------------------- inputs
Volume(i) == [reporter_slug |-> "rep", volume_folder |-> i]

\* Page ranges of pipeline runs, against a source of VolPages pages: one
\* page, the whole document, and a range that ends one page beyond it.
VolRanges == {<<1, 1>>, <<1, VolPages>>, <<VolPages, VolPages + 1>>}

\* Metadata lists of n cases; case i is named i.
CasesOfLen(n) ==
    {[i \in 1..n |-> CaseRecord(i, r[i][1], r[i][2], s[i])] :
        r \in [1..n -> VolRanges], s \in [1..n -> Sources]}

VolCases == UNION {CasesOfLen(n) : n \in 0..MaxCases}

OneCase == <<CaseRecord(1, 1, 1, "Harvard")>>

\* Read-bucket content of one volume: the packed and unpacked metadata
\* objects and the page count of {reporter}/{volume}.pdf.
Bucket(z, j) == [zip |-> z, json |-> j, pdf |-> VolPages]

\* Every metadata list, in the packed layout.
PackedBuckets == {Bucket(Obj("ok", cs), Absent) : cs \in VolCases}

\* Every combination of states of the two metadata objects.
LayoutBuckets ==
    {Bucket(Obj(z, IF z = "ok" THEN OneCase ELSE <<>>),
            Obj(j, IF j = "ok" THEN OneCase ELSE <<>>)) :
        z \in {"ok", "absent", "corrupt", "noentry", "badjson"},
        j \in {"ok", "absent", "badjson"}}

\* Volumes of a pool run: no metadata, all cases excluded, one good case,
\* a good case followed by one whose range leaves the document.
PoolBuckets ==
    {Bucket(Absent, Absent),
     Bucket(Obj("ok", <<CaseRecord(1, 1, 1, "Fastcase")>>), Absent),
     Bucket(Obj("ok", OneCase), Absent),
     Bucket(Obj("ok", <<CaseRecord(1, 1, 1, "Harvard"),
                        CaseRecord(2, VolPages, VolPages + 1, "Harvard")>>), Absent)}

Unset == [kind |-> "unset", n |-> 0]

\* The state at the call of split_pdfs, once get_volumes_to_process has
\* returned vs and the read bucket holds b.
InitPipeline(vs, b) ==
    /\ volumes = vs
    /\ bucket = b
    /\ pc = [v \in 1..Len(vs) |-> "unsubmitted"]
    /\ cases_metadata = [v \in 1..Len(vs) |-> None]
    /\ case_pdfs = [v \in 1..Len(vs) |-> <<>>]
    /\ up_i = [v \in 1..Len(vs) |-> 0]
    /\ tmpfiles = {}
    /\ requests = [v \in 1..Len(vs) |-> {}]
    /\ attempts = [v \in 1..Len(vs) |-> <<>>]
    /\ write_bucket = {}
    /\ ret = [v \in 1..Len(vs) |-> Unset]
    /\ printed = [v \in 1..Len(vs) |-> "none"]
    /\ o_pc = "submit"
    /\ submitted = 0
    /\ o_log = [v \in 1..Len(vs) |-> "none"]
    /\ summary = -1
    /\ downloaded = [v \in 1..Len(vs) |-> FALSE]

\* Before the call of split_pdf alone: nothing produced yet.
NotSplit == [done |-> FALSE, raised |-> FALSE, case_pdfs |-> <<>>, readerOk |-> TRUE, failAt |-> 0]

NoSplit == /\ in_pages = 0
           /\ in_cases = <<>>
           /\ out_split = NotSplit
           /\ out_again = NotSplit

\* Before the call of get_cases_metadata alone.
NotMeta == [done |-> FALSE, value |-> None, keys |-> {}, raised |-> FALSE, errZip |-> FALSE, errJson |-> FALSE]

NoMeta == /\ meta_in = Bucket(Absent, Absent)
          /\ meta_out = NotMeta

\* Before the call of get_volumes_to_process alone.
NotResolved == [done |-> FALSE, raised |-> FALSE, volumes |-> <<>>]

NoResolve == /\ res_in = [reporter |-> "<None>", volume |-> "<None>", year |-> [kind |-> "None", val |-> 0], catalog |-> <<>>]
             /\ res_out = NotResolved

\* One volume, any metadata.
InitVolume ==
    /\ \E b \in PackedBuckets \cup LayoutBuckets :
           InitPipeline(<<Volume(1)>>, [v \in {1} |-> b])
    /\ NoSplit
    /\ NoMeta
    /\ NoResolve

\* NumVolumes volumes.
InitPool ==
    /\ \E b \in [1..NumVolumes -> PoolBuckets] :
           InitPipeline([i \in 1..NumVolumes |-> Volume(i)], b)
    /\ NoSplit
    /\ NoMeta
    /\ NoResolve

Init == InitVolume \/ InitPool

\* ------------------------------------------------------ process_volume
Set(f, v, x) == [f EXCEPT ![v] = x]

\* Line 116: cases_metadata = get_cases_metadata(s3_client, READ_BUCKET, volume);
\* an exception leaving that call would leave process_volume as well.
PV_GetMetadata(v) ==
    /\ pc[v] = "start"
    /\ \E errZip \in BOOLEAN, errJson \in BOOLEAN :
           LET r == get_cases_metadata(bucket[v], errZip, errJson)
           IN  /\ cases_metadata' = Set(cases_metadata, v, r.value)
               /\ requests' = Set(requests, v, requests[v] \cup r.keys)
               /\ pc' = Set(pc, v, IF r.raised THEN "raised" ELSE "check")
    /\ UNCHANGED <<splitVars, metaVars, resVars>>
    /\ UNCHANGED <<downloaded, volumes, bucket, case_pdfs, up_i, tmpfiles, attempts,
                   write_bucket, ret, printed, o_pc, submitted, o_log, summary>>

\* Lines 118-120: falsy metadata, print and return None.
PV_SkipMissing(v) ==
    /\ pc[v] = "check"
    /\ ~Truthy(cases_metadata[v])
    /\ printed' = Set(printed, v, "missing metadata")
    /\ ret' = Set(ret, v, [kind |-> "None", n |-> 0])
    /\ pc' = Set(pc, v, "returned")
    /\ UNCHANGED <<splitVars, metaVars, resVars>>
    /\ UNCHANGED <<downloaded, volumes, bucket, cases_metadata, case_pdfs, up_i, tmpfiles,
                   requests, attempts, write_bucket, o_pc, submitted, o_log,
                   summary>>

\* Lines 122, 140-142: every case is from Fastcase, print and return None.
PV_SkipFastcase(v) ==
    /\ pc[v] = "check"
    /\ Truthy(cases_metadata[v])
    /\ AllFastcase(cases_metadata[v].cases)
    /\ printed' = Set(printed, v, "all-Fastcase")
    /\ ret' = Set(ret, v, [kind |-> "None", n |-> 0])
    /\ pc' = Set(pc, v, "returned")
    /\ UNCHANGED <<splitVars, metaVars, resVars>>
    /\ UNCHANGED <<downloaded, volumes, bucket, cases_metadata, case_pdfs, up_i, tmpfiles,
                   requests, attempts, write_bucket, o_pc, submitted, o_log,
                   summary>>

\* Lines 122-124: NamedTemporaryFile(suffix=".pdf", delete=False).
PV_CreateTemp(v) ==
    /\ pc[v] = "check"
    /\ Truthy(cases_metadata[v])
    /\ ~AllFastcase(cases_metadata[v].cases)
    /\ tmpfiles' = tmpfiles \cup {PdfPath(v)}
    /\ pc' = Set(pc, v, "download")
    /\ UNCHANGED <<splitVars, metaVars, resVars>>
    /\ UNCHANGED <<downloaded, volumes, bucket, cases_metadata, case_pdfs, up_i, requests,
                   attempts, write_bucket, ret, printed, o_pc, submitted,
                   o_log, summary>>

\* PV_Download going on to split_pdf whether or not the download succeeded.
PV_Download_Swallow(v) ==
    /\ pc[v] = "download"
    /\ requests' = Set(requests, v, requests[v] \cup {"pdf"})
    /\ \E ok \in BOOLEAN : downloaded' = Set(downloaded, v, ok)
    /\ pc' = Set(pc, v, "split")
    /\ UNCHANGED <<splitVars, metaVars, resVars>>
    /\ UNCHANGED <<volumes, bucket, cases_metadata, case_pdfs, up_i, tmpfiles,
                   attempts, write_bucket, ret, printed, o_pc, submitted,
                   o_log, summary>>

\* Line 125 and download_pdf: the call is inside the with block and before
\* the try, so the exception download_pdf re-raises leaves process_volume.
PV_Download(v) ==
    /\ pc[v] = "download"
    /\ requests' = Set(requests, v, requests[v] \cup {"pdf"})
    /\ \E ok \in BOOLEAN :
           /\ downloaded' = Set(downloaded, v, ok)
           /\ pc' = Set(pc, v, IF ok THEN "split" ELSE "raised")
    /\ UNCHANGED <<splitVars, metaVars, resVars>>
    /\ UNCHANGED <<volumes, bucket, cases_metadata, case_pdfs, up_i, tmpfiles,
                   attempts, write_bucket, ret, printed, o_pc, submitted,
                   o_log, summary>>

\* Lines 128-130: case_pdfs = split_pdf(pdf_path, cases_metadata) inside the
\* try; upload_case_pdfs is called only for a non-empty result.
PV_Split(v) ==
    /\ pc[v] = "split"
    /\ \E readerOk \in BOOLEAN, failAt \in 0..Len(cases_metadata[v].cases) :
           LET r == split_pdf(bucket[v].pdf, cases_metadata[v].cases, readerOk, failAt)
           IN  /\ tmpfiles' = tmpfiles \cup {CasePath(v, i) : i \in r.created}
               /\ case_pdfs' = Set(case_pdfs, v, r.case_pdfs)
               /\ pc' = Set(pc, v, IF r.raised THEN "except"
                                   ELSE IF Len(r.case_pdfs) > 0 THEN "upload"
                                   ELSE "return")
               /\ up_i' = Set(up_i, v, IF r.raised THEN 0 ELSE 1)
    /\ UNCHANGED <<splitVars, metaVars, resVars>>
    /\ UNCHANGED <<downloaded, volumes, bucket, cases_metadata, requests, attempts,
                   write_bucket, ret, printed, o_pc, submitted, o_log, summary>>

\* PV_UploadAttempt without the except clause: a failed upload_file leaves
\* upload_case_pdfs and reaches the handler of process_volume.
PV_UploadAttempt_NoCatch(v) ==
    /\ pc[v] = "upload"
    /\ LET key == UploadKey(volumes[v], case_pdfs[v][up_i[v]].file_name)
       IN  \E ok \in BOOLEAN :
               /\ attempts' = Set(attempts, v, Append(attempts[v], [key |-> key, ok |-> ok]))
               /\ write_bucket' = IF ok THEN write_bucket \cup {key} ELSE write_bucket
               /\ pc' = Set(pc, v, IF ok THEN "unlink" ELSE "except")
    /\ UNCHANGED <<splitVars, metaVars, resVars>>
    /\ UNCHANGED <<downloaded, volumes, bucket, cases_metadata, case_pdfs, up_i, tmpfiles,
                   requests, ret, printed, o_pc, submitted, o_log, summary>>

\* Lines 177-185: one upload_file call; its exception is caught and printed.
PV_UploadAttempt(v) ==
    /\ pc[v] = "upload"
    /\ LET key == UploadKey(volumes[v], case_pdfs[v][up_i[v]].file_name)
       IN  \E ok \in BOOLEAN :
               /\ attempts' = Set(attempts, v, Append(attempts[v], [key |-> key, ok |-> ok]))
               /\ write_bucket' = IF ok THEN write_bucket \cup {key} ELSE write_bucket
    /\ pc' = Set(pc, v, "unlink")
    /\ UNCHANGED <<splitVars, metaVars, resVars>>
    /\ UNCHANGED <<downloaded, volumes, bucket, cases_metadata, case_pdfs, up_i, tmpfiles,
                   requests, ret, printed, o_pc, submitted, o_log, summary>>

\* PV_UnlinkCase with os.unlink at the end of the try body instead of in
\* finally: the file of a failed upload stays.
PV_UnlinkCase_OnSuccess(v) ==
    /\ pc[v] = "unlink"
    /\ tmpfiles' = IF attempts[v][up_i[v]].ok
                   THEN tmpfiles \ {CasePath(v, case_pdfs[v][up_i[v]].path)}
                   ELSE tmpfiles
    /\ up_i' = Set(up_i, v, up_i[v] + 1)
    /\ pc' = Set(pc, v, IF up_i[v] < Len(case_pdfs[v]) THEN "upload" ELSE "return")
    /\ UNCHANGED <<splitVars, metaVars, resVars>>
    /\ UNCHANGED <<downloaded, volumes, bucket, cases_metadata, case_pdfs, requests,
                   attempts, write_bucket, ret, printed, o_pc, submitted,
                   o_log, summary>>

\* Lines 186-187: finally os.unlink(case_path), then the next item.
PV_UnlinkCase(v) ==
    /\ pc[v] = "unlink"
    /\ tmpfiles' = tmpfiles \ {CasePath(v, case_pdfs[v][up_i[v]].path)}
    /\ up_i' = Set(up_i, v, up_i[v] + 1)
    /\ pc' = Set(pc, v, IF up_i[v] < Len(case_pdfs[v]) THEN "upload" ELSE "return")
    /\ UNCHANGED <<splitVars, metaVars, resVars>>
    /\ UNCHANGED <<downloaded, volumes, bucket, cases_metadata, case_pdfs, requests,
                   attempts, write_bucket, ret, printed, o_pc, submitted,
                   o_log, summary>>

\* PV_Return counting the uploads that succeeded.
PV_Return_CountUploaded(v) ==
    /\ pc[v] = "return"
    /\ ret' = Set(ret, v, [kind |-> "Processed",
                           n |-> Cardinality({i \in 1..Len(attempts[v]) : attempts[v][i].ok})])
    /\ pc' = Set(pc, v, "finally")
    /\ UNCHANGED <<splitVars, metaVars, resVars>>
    /\ UNCHANGED <<downloaded, volumes, bucket, cases_metadata, case_pdfs, up_i, tmpfiles,
                   requests, attempts, write_bucket, printed, o_pc, submitted,
                   o_log, summary>>

\* Line 132: return f"Processed {len(case_pdfs)} cases ...".
PV_Return(v) ==
    /\ pc[v] = "return"
    /\ ret' = Set(ret, v, [kind |-> "Processed", n |-> Len(case_pdfs[v])])
    /\ pc' = Set(pc, v, "finally")
    /\ UNCHANGED <<splitVars, metaVars, resVars>>
    /\ UNCHANGED <<downloaded, volumes, bucket, cases_metadata, case_pdfs, up_i, tmpfiles,
                   requests, attempts, write_bucket, printed, o_pc, submitted,
                   o_log, summary>>

\* Lines 133-137: except Exception, return f"Error processing volume ...".
PV_Except(v) ==
    /\ pc[v] = "except"
    /\ ret' = Set(ret, v, [kind |-> "Error", n |-> 0])
    /\ pc' = Set(pc, v, "finally")
    /\ UNCHANGED <<splitVars, metaVars, resVars>>
    /\ UNCHANGED <<downloaded, volumes, bucket, cases_metadata, case_pdfs, up_i, tmpfiles,
                   requests, attempts, write_bucket, printed, o_pc, submitted,
                   o_log, summary>>

\* Lines 138-139: finally os.unlink(pdf_path), and the function returns.
PV_Finally(v) ==
    /\ pc[v] = "finally"
    /\ tmpfiles' = tmpfiles \ {PdfPath(v)}
    /\ pc' = Set(pc, v, "returned")
    /\ UNCHANGED <<splitVars, metaVars, resVars>>
    /\ UNCHANGED <<downloaded, volumes, bucket, cases_metadata, case_pdfs, up_i, requests,
                   attempts, write_bucket, ret, printed, o_pc, submitted,
                   o_log, summary>>

\* ---------------------------------------------------------- split_pdfs
\* A job that ended: process_volume returned, or raised.
Finished(v) == pc[v] \in {"returned", "raised"}

Running(v) == pc[v] \notin {"unsubmitted", "queued", "returned", "raised"}

\* Lines 38-41: executor.submit(process_volume, v, s3_client), in list order.
Submit(v) ==
    /\ o_pc = "submit"
    /\ v = submitted + 1
    /\ submitted' = v
    /\ pc' = Set(pc, v, "queued")
    /\ UNCHANGED <<splitVars, metaVars, resVars>>
    /\ UNCHANGED <<downloaded, volumes, bucket, cases_metadata, case_pdfs, up_i, tmpfiles,
                   requests, attempts, write_bucket, ret, printed, o_pc, o_log,
                   summary>>

\* Line 43: the list is complete, as_completed(futures) starts.
AllSubmitted ==
    /\ o_pc = "submit"
    /\ submitted = Len(volumes)
    /\ o_pc' = "drain"
    /\ UNCHANGED <<splitVars, metaVars, resVars>>
    /\ UNCHANGED <<downloaded, volumes, bucket, pc, cases_metadata, case_pdfs, up_i,
                   tmpfiles, requests, attempts, write_bucket, ret, printed,
                   submitted, o_log, summary>>

\* Line 37: a free worker thread of the pool takes the oldest queued job.
StartJob(v) ==
    /\ pc[v] = "queued"
    /\ \A w \in 1..(v - 1) : pc[w] # "queued"
    /\ Cardinality({w \in Vols : Running(w)}) < MaxWorkers
    /\ pc' = Set(pc, v, "start")
    /\ UNCHANGED <<splitVars, metaVars, resVars>>
    /\ UNCHANGED <<downloaded, volumes, bucket, cases_metadata, case_pdfs, up_i, tmpfiles,
                   requests, attempts, write_bucket, ret, printed, o_pc,
                   submitted, o_log, summary>>

\* Drain without the try/except around future.result(): the exception of a
\* job leaves the loop and split_pdfs.
Drain_NoCatch(v) ==
    /\ o_pc = "drain"
    /\ Finished(v)
    /\ o_log[v] = "none"
    /\ o_log' = IF pc[v] = "returned" THEN Set(o_log, v, "result") ELSE o_log
    /\ o_pc' = IF pc[v] = "returned" THEN o_pc ELSE "raised"
    /\ UNCHANGED <<splitVars, metaVars, resVars>>
    /\ UNCHANGED <<downloaded, volumes, bucket, pc, cases_metadata, case_pdfs, up_i,
                   tmpfiles, requests, attempts, write_bucket, ret, printed,
                   submitted, summary>>

\* Lines 43-50: the next completed future; future.result() returns the
\* job's value or re-raises its exception, which except Exception catches.
Drain(v) ==
    /\ o_pc = "drain"
    /\ Finished(v)
    /\ o_log[v] = "none"
    /\ o_log' = Set(o_log, v, IF pc[v] = "returned" THEN "result" ELSE "error")
    /\ UNCHANGED <<splitVars, metaVars, resVars>>
    /\ UNCHANGED <<downloaded, volumes, bucket, pc, cases_metadata, case_pdfs, up_i,
                   tmpfiles, requests, attempts, write_bucket, ret, printed,
                   o_pc, submitted, summary>>

\* Summary counting only the jobs that returned without an error status.
Summary_CountSucceeded ==
    /\ o_pc = "drain"
    /\ \A v \in Vols : o_log[v] # "none"
    /\ summary' = Cardinality({v \in Vols : o_log[v] = "result" /\ ret[v].kind # "Error"})
    /\ o_pc' = "done"
    /\ UNCHANGED <<splitVars, metaVars, resVars>>
    /\ UNCHANGED <<downloaded, volumes, bucket, pc, cases_metadata, case_pdfs, up_i,
                   tmpfiles, requests, attempts, write_bucket, ret, printed,
                   submitted, o_log>>

\* Line 52: every future was yielded; print(f"Processed {total_volumes} volumes.").
Summary ==
    /\ o_pc = "drain"
    /\ \A v \in Vols : o_log[v] # "none"
    /\ summary' = Len(volumes)
    /\ o_pc' = "done"
    /\ UNCHANGED <<splitVars, metaVars, resVars>>
    /\ UNCHANGED <<downloaded, volumes, bucket, pc, cases_metadata, case_pdfs, up_i,
                   tmpfiles, requests, attempts, write_bucket, ret, printed,
                   submitted, o_log>>

Next ==
    \/ AllSubmitted
    \/ Summary
    \/ \E v \in Vols : Submit(v)
    \/ \E v \in Vols : StartJob(v)
    \/ \E v \in Vols : PV_GetMetadata(v)
    \/ \E v \in Vols : PV_SkipMissing(v)
    \/ \E v \in Vols : PV_SkipFastcase(v)
    \/ \E v \in Vols : PV_CreateTemp(v)
    \/ \E v \in Vols : PV_Download(v)
    \/ \E v \in Vols : PV_Split(v)
    \/ \E v \in Vols : PV_UploadAttempt(v)
    \/ \E v \in Vols : PV_UnlinkCase(v)
    \/ \E v \in Vols : PV_Return(v)
    \/ \E v \in Vols : PV_Except(v)
    \/ \E v \in Vols : PV_Finally(v)
    \/ \E v \in Vols : Drain(v)

Spec == Init /\ [][Next]_vars

\* The steps of the worker thread that runs job v.
JobStep(v) ==
    /\ v \in Vols
    /\ \/ StartJob(v)
       \/ PV_GetMetadata(v)
       \/ PV_SkipMissing(v)
       \/ PV_SkipFastcase(v)
       \/ PV_CreateTemp(v)
       \/ PV_Download(v)
       \/ PV_Split(v)
       \/ PV_UploadAttempt(v)
       \/ PV_UnlinkCase(v)
       \/ PV_Return(v)
       \/ PV_Except(v)
       \/ PV_Finally(v)

\* The steps of the thread that runs split_pdfs.
MainStep ==
    \/ AllSubmitted
    \/ Summary
    \/ \E v \in Vols : Submit(v)
    \/ \E v \in Vols : Drain(v)

\* Every storage and PDF call returns or raises, and every thread that can
\* take a step is scheduled: the main thread and each pool worker.
Fairness == WF_vars(MainStep) /\ \A v \in 1..NumVolumes : WF_vars(JobStep(v))

SpecLive == Init /\ [][Next]_vars /\ Fairness

\* ------------------------------------------------- split_pdf on its own
\* One case with any page range within 1..MaxPages.
RangeCases ==
    {<<CaseRecord(1, f, l, s)>> : f \in 1..MaxPages, l \in 1..MaxPages, s \in Sources}

\* split_pdf is given a source of 0..MaxPages pages and a metadata list.
InitSplit ==
    /\ InitPipeline(<<>>, <<>>)
    /\ in_pages \in 0..MaxPages
    /\ in_cases \in RangeCases \cup VolCases
    /\ out_split = NotSplit
    /\ out_again = NotSplit
    /\ NoMeta
    /\ NoResolve

\* Lines 156-173: one call split_pdf(pdf_path, cases_metadata).
CallSplit ==
    /\ ~out_split.done
    /\ \E readerOk \in BOOLEAN, failAt \in 0..Len(in_cases) :
           LET r == split_pdf(in_pages, in_cases, readerOk, failAt)
           IN  out_split' = [done |-> TRUE, raised |-> r.raised,
                             case_pdfs |-> r.case_pdfs, readerOk |-> readerOk,
                             failAt |-> failAt]
    /\ UNCHANGED <<in_pages, in_cases, out_again>>
    /\ UNCHANGED <<pipeVars, metaVars, resVars>>

\* A second call split_pdf(pdf_path, cases_metadata) on the same arguments.
CallSplitAgain ==
    /\ out_split.done
    /\ ~out_again.done
    /\ \E readerOk \in BOOLEAN, failAt \in 0..Len(in_cases) :
           LET r == split_pdf(in_pages, in_cases, readerOk, failAt)
           IN  out_again' = [done |-> TRUE, raised |-> r.raised,
                             case_pdfs |-> r.case_pdfs, readerOk |-> readerOk,
                             failAt |-> failAt]
    /\ UNCHANGED <<in_pages, in_cases, out_split>>
    /\ UNCHANGED <<pipeVars, metaVars, resVars>>

NextSplit == CallSplit \/ CallSplitAgain

SpecSplit == InitSplit /\ [][NextSplit]_vars

\* ------------------------------------------ get_cases_metadata on its own
\* Every combination of states of the packed and the unpacked object, with
\* any one-case list as the content of an object that parses.
MetaObjs(states) ==
    {Obj(st, cs) : st \in states \ {"ok"}, cs \in {<<>>}} \cup
    {Obj(st, cs) : st \in states \cap {"ok"}, cs \in CasesOfLen(1)}

MetaBuckets ==
    {Bucket(z, j) : z \in MetaObjs({"ok", "absent", "corrupt", "noentry", "badjson"}),
                    j \in MetaObjs({"ok", "absent", "badjson"})}

InitMeta ==
    /\ InitPipeline(<<>>, <<>>)
    /\ NoSplit
    /\ NoResolve
    /\ meta_in \in MetaBuckets
    /\ meta_out = NotMeta

\* Lines 82-112: one call get_cases_metadata(s3_client, bucket, volume).
CallMeta ==
    /\ ~meta_out.done
    /\ \E errZip \in BOOLEAN, errJson \in BOOLEAN :
           LET r == get_cases_metadata(meta_in, errZip, errJson)
           IN  meta_out' = [done |-> TRUE, value |-> r.value, keys |-> r.keys,
                            raised |-> r.raised, errZip |-> errZip,
                            errJson |-> errJson]
    /\ UNCHANGED meta_in
    /\ UNCHANGED <<pipeVars, splitVars, resVars>>

NextMeta == CallMeta

SpecMeta == InitMeta /\ [][NextMeta]_vars


\* ------------------------------------------------ get_volumes_to_process
\* The default None of a selector; a string selector is its text.
NoneSel == "<None>"

\* Python truthiness of a reporter or volume selector: None and "" are falsy.
SelTruthy(sel) == sel # NoneSel /\ sel # ""

\* A publication_year selector: None, the string "" ("empty"), an integer
\* val ("int"), the decimal string of val ("str"), or a string int() does
\* not accept ("bad").
YearSel(kind, val) == [kind |-> kind, val |-> val]

\* Truthiness of the year selector: None, "" and the integer 0 are falsy.
YearTruthy(y) == y.kind \in {"str", "bad"} \/ (y.kind = "int" /\ y.val # 0)

\* int(publication_year): raises ValueError on "bad", else the number.
IntRaises(y) == y.kind = "bad"

IntOf(y) == y.val

\* A record of the catalog; has_year is whether it has a publication_year.
CatalogRecord(r, v, has, y) == [reporter_slug |-> r, volume_folder |-> v, has_year |-> has, publication_year |-> y]

\* v.get("publication_year") == publication_year, without int(): a string
\* never equals the integer of the record.
YearMatches_NoCoerce(v, y) == v.has_year /\ y.kind = "int" /\ v.publication_year = y.val

\* v.get("publication_year") == int(publication_year): None equals no int.
YearMatches(v, y) == v.has_year /\ v.publication_year = IntOf(y)

\* Lines 64-67.
ByReporter(catalog, reporter) ==
    LET Test(v) == v.reporter_slug = reporter
    IN  IF SelTruthy(reporter) THEN SelectSeq(catalog, Test) ELSE catalog

\* Lines 68-71.
ByVolume(catalog, volume) ==
    LET Test(v) == v.volume_folder = volume
    IN  IF SelTruthy(volume) THEN SelectSeq(catalog, Test) ELSE catalog

\* Lines 72-77: int() is evaluated once per record of the list, so a bad
\* selector raises only when a record is left to compare.
ByYear(catalog, y) ==
    LET Test(v) == YearMatches(v, y)
    IN  IF ~YearTruthy(y) THEN [raised |-> FALSE, volumes |-> catalog]
        ELSE IF IntRaises(y) /\ Len(catalog) > 0 THEN [raised |-> TRUE, volumes |-> <<>>]
        ELSE IF IntRaises(y) THEN [raised |-> FALSE, volumes |-> <<>>]
        ELSE [raised |-> FALSE, volumes |-> SelectSeq(catalog, Test)]

\* get_volumes_to_process without the guard of lines 58-60.
get_volumes_to_process_NoGuard(reporter, volume, year, catalog) ==
    ByYear(ByVolume(ByReporter(catalog, reporter), volume), year)

\* get_volumes_to_process(reporter, volume, publication_year) over the
\* catalog json.loads(get_volumes_metadata(r2_bucket)) returns.
get_volumes_to_process(reporter, volume, year, catalog) ==
    IF SelTruthy(volume) /\ reporter = NoneSel
    THEN [raised |-> FALSE, volumes |-> <<>>]
    ELSE ByYear(ByVolume(ByReporter(catalog, reporter), volume), year)

CatalogRecords ==
    {CatalogRecord(r, v, FALSE, 0) : r \in {"a", "b"}, v \in {"1", "2"}} \cup
    {CatalogRecord(r, v, TRUE, y) : r \in {"a", "b"}, v \in {"1", "2"}, y \in {1900, 1901}}

Catalogs == UNION {[1..n -> CatalogRecords] : n \in 0..MaxCatalog}

YearSels ==
    {YearSel("None", 0), YearSel("empty", 0), YearSel("int", 0), YearSel("int", 1900),
     YearSel("str", 1900), YearSel("str", 1901), YearSel("bad", 0)}

InitResolve ==
    /\ InitPipeline(<<>>, <<>>)
    /\ NoSplit
    /\ NoMeta
    /\ res_in \in [reporter : {NoneSel, "", "a"}, volume : {NoneSel, "", "1"},
                   year : YearSels, catalog : Catalogs]
    /\ res_out = NotResolved

\* Lines 55-79: one call get_volumes_to_process(reporter, volume, publication_year).
CallResolve ==
    /\ ~res_out.done
    /\ LET r == get_volumes_to_process(res_in.reporter, res_in.volume, res_in.year, res_in.catalog)
       IN  res_out' = [done |-> TRUE, raised |-> r.raised, volumes |-> r.volumes]
    /\ UNCHANGED res_in
    /\ UNCHANGED <<pipeVars, splitVars, metaVars>>

NextResolve == CallResolve

SpecResolve == InitResolve /\ [][NextResolve]_vars


\* ================================================================ claims
\* The files of job v still on disk.
TempsOf(v) == {f \in tmpfiles : f[1] = v}

\* C1: process_volume never raises to its caller: no job ever ends with an
\* exception instead of a returned value.
C1_NeverRaises == \A v \in Vols : pc[v] # "raised"

\* C2: once process_volume has exited, on any path, the temporary file of
\* the volume's source PDF is no longer on disk.
C2_SourceTempDeleted == \A v \in Vols : Finished(v) => PdfPath(v) \notin tmpfiles

\* C3: once process_volume has exited, on any path, no per-case temporary
\* file that split_pdf created for it is still on disk.
C3_CaseTempsDeleted ==
    \A v \in Vols : Finished(v) => TempsOf(v) \subseteq {PdfPath(v)}

\* The two halves of C4: a step of one job changes nothing of another job;
\* no exception of a job leaves split_pdfs and, when split_pdfs ends, every
\* job has run to its end and was drained with its own outcome.
C4_OneJobStep ==
    \A v \in Vols : pc'[v] # pc[v] =>
        \A w \in Vols \ {v} :
            /\ pc'[w] = pc[w]
            /\ ret'[w] = ret[w]
            /\ cases_metadata'[w] = cases_metadata[w]
            /\ case_pdfs'[w] = case_pdfs[w]
            /\ attempts'[w] = attempts[w]
            /\ TempsOf(w)' = TempsOf(w)

C4_Drained ==
    /\ o_pc # "raised"
    /\ o_pc = "done" =>
           \A v \in Vols :
               /\ Finished(v)
               /\ o_log[v] = (IF pc[v] = "raised" THEN "error" ELSE "result")

\* C4: in every run of split_pdfs, C4_Drained holds in every state and
\* C4_OneJobStep of every step: a failing job neither stops split_pdfs nor
\* touches another job.
C4_JobsIsolated == [](C4_Drained) /\ [][C4_OneJobStep]_vars

C4_Witness ==
    /\ o_pc = "done"
    /\ \E v \in Vols, w \in Vols :
           /\ pc[v] = "raised" /\ o_log[v] = "error"
           /\ ret[w].kind = "Processed" /\ o_log[w] = "result"

\* The non-excluded records of a metadata list, as indices in input order.
RECURSIVE KeptFrom(_, _)
KeptFrom(cases, i) ==
    IF i > Len(cases) THEN <<>>
    ELSE IF cases[i].provenance.source # "Fastcase"
    THEN <<i>> \o KeptFrom(cases, i + 1)
    ELSE KeptFrom(cases, i + 1)

Kept(cases) == KeptFrom(cases, 1)

\* The 1-based pages f, f + 1, ..., l.
PagesThrough(f, l) == [k \in 1..(l - f + 1) |-> f + k - 1]

\* Every non-excluded record has 1 <= f <= l <= n.
RangesWithin(cases, n) ==
    \A i \in 1..Len(cases) :
        cases[i].provenance.source # "Fastcase" =>
            /\ 1 <= cases[i].first_page_order
            /\ cases[i].first_page_order <= cases[i].last_page_order
            /\ cases[i].last_page_order <= n

\* C5: when the reader opens, no write fails and every non-excluded record
\* has 1 <= f <= l <= N, split_pdf returns, and the document of each such
\* record holds exactly the 1-based pages f..l in order, l - f + 1 pages.
C5_InclusiveRange ==
    (out_split.done /\ out_split.readerOk /\ out_split.failAt = 0
        /\ RangesWithin(in_cases, in_pages)) =>
    /\ ~out_split.raised
    /\ Len(out_split.case_pdfs) = Len(Kept(in_cases))
    /\ \A j \in 1..Len(out_split.case_pdfs) :
           LET case == in_cases[Kept(in_cases)[j]]
           IN  /\ out_split.case_pdfs[j].pages =
                      PagesThrough(case.first_page_order, case.last_page_order)
               /\ Len(out_split.case_pdfs[j].pages) =
                      case.last_page_order - case.first_page_order + 1

C5_Witness ==
    /\ out_split.done /\ ~out_split.raised
    /\ Len(in_cases) = 1
    /\ in_cases[1].first_page_order = 2 /\ in_cases[1].last_page_order = 4
    /\ in_cases[1].provenance.source # "Fastcase"
    /\ Len(out_split.case_pdfs) = 1
    /\ out_split.case_pdfs[1].pages = <<2, 3, 4>>

\* A call of split_pdf on a single non-excluded record with
\* first_page_order = 3 and last_page_order = 5 that returned.
Split3To5 ==
    /\ out_split.done /\ ~out_split.raised
    /\ Len(in_cases) = 1
    /\ in_cases[1].first_page_order = 3 /\ in_cases[1].last_page_order = 5
    /\ in_cases[1].provenance.source # "Fastcase"

\* C6 as stated: for first_page_order = 3 and last_page_order = 5 the case
\* PDF holds exactly pages 3 and 4 of the source, 2 pages.
C6_PagesThreeFour ==
    Split3To5 =>
        /\ Len(out_split.case_pdfs) = 1
        /\ out_split.case_pdfs[1].pages = <<3, 4>>

\* C6 as amended: for first_page_order = 3 and last_page_order = 5 and a
\* source of at least 5 pages the case PDF holds exactly pages 3, 4 and 5
\* of the source, 3 pages, in the original order.
C6_PagesThreeToFive ==
    /\ Split3To5 =>
           /\ in_pages >= 5
           /\ Len(out_split.case_pdfs) = 1
           /\ out_split.case_pdfs[1].pages = <<3, 4, 5>>
    /\ (out_split.done /\ out_split.readerOk /\ out_split.failAt = 0
           /\ in_pages >= 5 /\ Len(in_cases) = 1
           /\ in_cases[1].first_page_order = 3
           /\ in_cases[1].last_page_order = 5) => ~out_split.raised

C6_Witness == Split3To5 /\ in_pages = 5 /\ Len(out_split.case_pdfs[1].pages) = 3

\* Job v is past the loop of upload_case_pdfs.
UploadsOver(v) ==
    \/ pc[v] = "return"
    \/ pc[v] \in {"finally", "returned"} /\ ret[v].kind = "Processed"

\* The destination keys of the items of case_pdfs, in order.
KeysOf(v) ==
    [i \in 1..Len(case_pdfs[v]) |->
        <<"rep", v, "case-pdfs", case_pdfs[v][i].file_name>>]

\* C7: a failed upload_file does not end the batch and does not leave
\* upload_case_pdfs as an exception: while the loop runs one attempt was
\* made per item reached, after it exactly one attempt per item was made,
\* in order, to the item's key, and no job that attempted an upload ends in
\* the except branch.
C7_EveryItemAttempted ==
    \A v \in Vols :
        /\ pc[v] = "upload" => Len(attempts[v]) = up_i[v] - 1
        /\ pc[v] = "unlink" => Len(attempts[v]) = up_i[v]
        /\ UploadsOver(v) => [i \in 1..Len(attempts[v]) |-> attempts[v][i].key] = KeysOf(v)
        /\ Len(attempts[v]) > 0 => (pc[v] # "except" /\ ret[v].kind # "Error")

C7_Witness ==
    \E v \in Vols :
        /\ UploadsOver(v)
        /\ Len(attempts[v]) = 3
        /\ ~attempts[v][1].ok /\ attempts[v][2].ok /\ ~attempts[v][3].ok

\* The number of upload_file calls of job v that succeeded.
Uploaded(v) == Cardinality({i \in 1..Len(attempts[v]) : attempts[v][i].ok})

\* C8 as stated: the case count of the returned status is the number of
\* case PDFs actually uploaded.
C8_CountIsUploaded ==
    \A v \in Vols : ret[v].kind = "Processed" => ret[v].n = Uploaded(v)

\* C8 as amended: the case count of the returned status is the number of
\* case PDFs split_pdf produced, one per non-excluded record, each of which
\* had one upload attempt, whether or not the attempt succeeded.
C8_CountIsSplit ==
    \A v \in Vols :
        ret[v].kind = "Processed" =>
            /\ ret[v].n = Len(Kept(cases_metadata[v].cases))
            /\ ret[v].n = Len(attempts[v])
            /\ ret[v].n >= Uploaded(v)

C8_Witness ==
    \E v \in Vols :
        /\ ret[v].kind = "Processed" /\ ret[v].n = 3
        /\ Uploaded(v) = 2
        /\ Len(attempts[v]) = 3

\* C9: the temporary file of an item is gone before the attempt of the next
\* item starts: no item before the one the loop is at has its file on disk,
\* and an item whose successor was attempted has none either.
C9_DeletedBeforeNext ==
    \A v \in Vols : \A j \in 1..Len(case_pdfs[v]) :
        (j < up_i[v] \/ j < Len(attempts[v])) =>
            <<v, case_pdfs[v][j].path>> \notin tmpfiles

C9_Witness ==
    \E v \in Vols :
        /\ pc[v] = "unlink" /\ up_i[v] = 2
        /\ ~attempts[v][1].ok
        /\ <<v, case_pdfs[v][2].path>> \in tmpfiles

\* C10: for a non-empty metadata list whose records are all from Fastcase,
\* process_volume requests no source PDF, creates no temporary file, splits
\* and uploads nothing, and returns after printing the all-Fastcase skip.
C10_AllFastcaseSkipped ==
    \A v \in Vols :
        (/\ cases_metadata[v].present
         /\ Len(cases_metadata[v].cases) > 0
         /\ \A i \in 1..Len(cases_metadata[v].cases) :
                cases_metadata[v].cases[i].provenance.source = "Fastcase") =>
            /\ pc[v] \in {"check", "returned"}
            /\ "pdf" \notin requests[v]
            /\ TempsOf(v) = {}
            /\ case_pdfs[v] = <<>>
            /\ attempts[v] = <<>>
            /\ pc[v] = "returned" =>
                   /\ printed[v] = "all-Fastcase"
                   /\ ret[v].kind = "None"

C10_Witness ==
    \E v \in Vols :
        /\ pc[v] = "returned"
        /\ printed[v] = "all-Fastcase"
        /\ Len(cases_metadata[v].cases) = 2
        /\ requests[v] = {"zip"}

\* The fetch of the packed key failed with not-found: the object is absent
\* and the call did not fail otherwise.
PackedNotFound == meta_in.zip.state = "absent" /\ ~meta_out.errZip

\* C11: get_cases_metadata requests the unpacked key exactly when the fetch
\* of the packed key failed with not-found; then, if the unpacked object
\* exists and parses, its content is returned; a packed object that exists
\* but has no metadata entry or does not parse gives None, with the
\* unpacked key never requested.
C11_FallbackOnlyOnNotFound ==
    meta_out.done =>
        /\ "zip" \in meta_out.keys
        /\ ("json" \in meta_out.keys) <=> PackedNotFound
        /\ (PackedNotFound /\ meta_in.json.state = "ok" /\ ~meta_out.errJson) =>
               meta_out.value = [present |-> TRUE, cases |-> meta_in.json.cases]
        /\ meta_in.zip.state \in {"noentry", "corrupt", "badjson"} =>
               /\ ~meta_out.value.present
               /\ "json" \notin meta_out.keys

C11_Witness ==
    /\ meta_out.done
    /\ meta_in.zip.state = "absent" /\ meta_in.json.state = "ok"
    /\ meta_out.keys = {"zip", "json"}
    /\ meta_out.value.present
    /\ meta_out.value.cases = meta_in.json.cases

\* C12: get_cases_metadata never raises: for every state of the two objects
\* and every storage failure it returns None or the parsed content of one
\* of the two objects.
C12_MetadataNeverRaises ==
    meta_out.done =>
        /\ ~meta_out.raised
        /\ \/ meta_out.value = [present |-> FALSE, cases |-> <<>>]
           \/ /\ meta_out.value.present
              /\ \/ meta_in.zip.state = "ok" /\ meta_out.value.cases = meta_in.zip.cases
                 \/ meta_in.json.state = "ok" /\ meta_out.value.cases = meta_in.json.cases

C12_Witness ==
    /\ meta_out.done
    /\ meta_in.zip.state = "corrupt"
    /\ ~meta_out.value.present
    /\ ~meta_out.raised

\* C13 as stated: whenever a volume selector is given and the reporter
\* selector is unset or empty, get_volumes_to_process returns the empty
\* sequence.
C13_MisuseGuard ==
    (/\ res_out.done
     /\ res_in.volume \notin {"<None>", ""}
     /\ res_in.reporter \in {"<None>", ""}) =>
        /\ ~res_out.raised
        /\ res_out.volumes = <<>>

\* C13 as amended: whenever a volume selector is given and the reporter
\* selector is unset (None), get_volumes_to_process returns the empty
\* sequence, for every catalog and every publication_year value.
C13_GuardOnUnset ==
    (/\ res_out.done
     /\ res_in.volume \notin {"<None>", ""}
     /\ res_in.reporter = "<None>") =>
        /\ ~res_out.raised
        /\ res_out.volumes = <<>>

C13_Witness ==
    /\ res_out.done
    /\ res_in.volume = "1" /\ res_in.reporter = "<None>"
    /\ \E i \in 1..Len(res_in.catalog) : res_in.catalog[i].volume_folder = "1"
    /\ res_in.year.kind = "bad"
    /\ res_out.volumes = <<>>

\* Whether a catalog record satisfies every selector that is given, a
\* selector being given when it is neither None nor empty nor 0.
Selected(v) ==
    /\ res_in.reporter \notin {"<None>", ""} => v.reporter_slug = res_in.reporter
    /\ res_in.volume \notin {"<None>", ""} => v.volume_folder = res_in.volume
    /\ (res_in.year.kind = "str" \/ (res_in.year.kind = "int" /\ res_in.year.val # 0)) =>
           (v.has_year /\ v.publication_year = res_in.year.val)

\* The records of a catalog that satisfy the selectors, in catalog order.
RECURSIVE SelectedFrom(_, _)
SelectedFrom(catalog, i) ==
    IF i > Len(catalog) THEN <<>>
    ELSE IF Selected(catalog[i]) THEN <<catalog[i]>> \o SelectedFrom(catalog, i + 1)
    ELSE SelectedFrom(catalog, i + 1)

\* C14 as stated: for every catalog and every combination of selectors (the
\* year one that int() accepts), the result is exactly the catalog records
\* that satisfy all given selectors, in catalog order.
C14_ExactlySelected ==
    (res_out.done /\ res_in.year.kind # "bad") =>
        /\ ~res_out.raised
        /\ res_out.volumes = SelectedFrom(res_in.catalog, 1)

\* C14 as amended: the same, except that a volume selector given with the
\* reporter None returns the empty sequence whatever the catalog holds.
C14_SelectedUnlessMisuse ==
    (res_out.done /\ res_in.year.kind # "bad") =>
        /\ ~res_out.raised
        /\ res_out.volumes =
               IF res_in.volume \notin {"<None>", ""} /\ res_in.reporter = "<None>"
               THEN <<>>
               ELSE SelectedFrom(res_in.catalog, 1)

C14_Witness ==
    /\ res_out.done
    /\ res_in.reporter = "a" /\ res_in.volume = "1"
    /\ res_in.year = [kind |-> "str", val |-> 1900]
    /\ Len(res_in.catalog) = 2
    /\ res_in.catalog[1].publication_year = 1901
    /\ Len(res_out.volumes) = 1
    /\ res_out.volumes[1] = res_in.catalog[2]

\* The file names of a split result, in order.
NamesOf(out) == [j \in 1..Len(out.case_pdfs) |-> out.case_pdfs[j].file_name]

\* The page content of a split result, in order.
ContentOf(out) == [j \in 1..Len(out.case_pdfs) |-> out.case_pdfs[j].pages]

\* A call that returned has one entry per non-excluded record, in input
\* order, named by the record and holding the record's pages.
OnePerKept(out) ==
    (out.done /\ ~out.raised) =>
        /\ Len(out.case_pdfs) = Len(Kept(in_cases))
        /\ \A j \in 1..Len(out.case_pdfs) :
               LET case == in_cases[Kept(in_cases)[j]]
               IN  /\ case.provenance.source # "Fastcase"
                   /\ out.case_pdfs[j].file_name = case.file_name
                   /\ out.case_pdfs[j].pages =
                          PagesThrough(case.first_page_order, case.last_page_order)

\* C15: with all page ranges in range split_pdf returns (unless the reader
\* or a write fails) exactly one entry per non-excluded record, in input
\* order, none for an excluded record; and a second call on the same inputs
\* returns the same file names and the same page content.
C15_OnePerKeptRecord ==
    /\ OnePerKept(out_split)
    /\ OnePerKept(out_again)
    /\ (out_split.done /\ out_split.readerOk /\ out_split.failAt = 0
           /\ RangesWithin(in_cases, in_pages)) => ~out_split.raised
    /\ (out_again.done /\ ~out_again.raised /\ ~out_split.raised) =>
           /\ NamesOf(out_again) = NamesOf(out_split)
           /\ ContentOf(out_again) = ContentOf(out_split)

C15_Witness ==
    /\ out_again.done /\ ~out_again.raised /\ ~out_split.raised
    /\ Len(in_cases) = 3
    /\ in_cases[1].provenance.source = "Harvard"
    /\ in_cases[2].provenance.source = "Fastcase"
    /\ in_cases[3].provenance.source = "Harvard"
    /\ NamesOf(out_again) = <<1, 3>>
    /\ out_again.failAt # out_split.failAt

\* The outcome of a job that ended: skipped, processed, or error.
Terminal(v) ==
    \/ pc[v] = "returned" /\ ret[v].kind \in {"None", "Processed", "Error"}
    \/ pc[v] = "raised"

\* One job per resolved volume, submitted in order; the summary is printed
\* only once every job has a terminal outcome, and counts every volume.
C16_Safe ==
    /\ submitted <= Len(volumes)
    /\ \A v \in Vols : pc[v] = "unsubmitted" <=> v > submitted
    /\ o_pc # "submit" => submitted = Len(volumes)
    /\ summary # -1 =>
           /\ summary = Len(volumes)
           /\ \A v \in Vols : Terminal(v)

\* C16: when every call returns and every thread is scheduled, split_pdfs
\* submits one job per resolved volume, every job eventually reaches a
\* terminal outcome, and "Processed N volumes" is eventually printed, only
\* after all jobs ended, with N the number of resolved volumes whatever the
\* number of jobs that failed.
C16_AllJobsEnd ==
    /\ [](C16_Safe)
    /\ <>(o_pc = "done" /\ summary = Len(volumes) /\ \A v \in Vols : Terminal(v))

C16_Witness ==
    /\ o_pc = "done"
    /\ summary = Len(volumes)
    /\ Len(volumes) >= 2
    /\ \E v \in Vols, w \in Vols : pc[v] = "raised" /\ ret[w].kind = "Error"

\* The job is at or past the call of split_pdf.
AtOrPastSplit(v) ==
    \/ pc[v] \in {"split", "upload", "unlink", "return", "except", "finally"}
    \/ pc[v] = "returned" /\ ret[v].kind \in {"Processed", "Error"}

\* The job has loaded its metadata: it is past the get_cases_metadata call.
MetadataLoaded(v) == pc[v] \notin {"unsubmitted", "queued", "start"}

\* C17: within one job the source PDF is requested only after the metadata
\* was loaded, non-absent and not all-excluded; split_pdf is called only
\* after a successful download; the first upload is attempted only after
\* split_pdf returned one item per non-excluded record; and with absent
\* metadata there is no download, no split and no upload.
C17_StepsOrdered ==
    \A v \in Vols :
        /\ (pc[v] = "download" \/ "pdf" \in requests[v]) =>
               /\ MetadataLoaded(v)
               /\ "zip" \in requests[v]
               /\ cases_metadata[v].present
               /\ \E i \in 1..Len(cases_metadata[v].cases) :
                      cases_metadata[v].cases[i].provenance.source # "Fastcase"
        /\ AtOrPastSplit(v) => downloaded[v] /\ "pdf" \in requests[v]
        /\ (pc[v] \in {"upload", "unlink"} \/ attempts[v] # <<>>) =>
               /\ downloaded[v]
               /\ Len(case_pdfs[v]) = Len(Kept(cases_metadata[v].cases))
               /\ Len(case_pdfs[v]) >= 1
        /\ (MetadataLoaded(v) /\ cases_metadata[v] = None) =>
               /\ "pdf" \notin requests[v]
               /\ ~downloaded[v]
               /\ ~AtOrPastSplit(v)
               /\ case_pdfs[v] = <<>>
               /\ attempts[v] = <<>>
               /\ TempsOf(v) = {}

C17_Witness ==
    \E v \in Vols :
        /\ pc[v] = "unlink"
        /\ Len(attempts[v]) = 1
        /\ downloaded[v]
        /\ Len(cases_metadata[v].cases) > Len(case_pdfs[v])

\* Record i of job v is not excluded and its range(f - 1, l) holds an
\* index at or beyond the number of pages of the volume's source PDF.
BeyondAt(v, i) ==
    /\ cases_metadata[v].cases[i].provenance.source # "Fastcase"
    /\ \E k \in (cases_metadata[v].cases[i].first_page_order - 1)
                ..(cases_metadata[v].cases[i].last_page_order - 1) :
           k >= bucket[v].pdf

\* C18: for a volume whose loaded metadata holds a non-excluded record with
\* a page index beyond the source document, no upload is ever attempted and
\* no key of the volume is written; once split_pdf was called the job is in
\* the except branch with no split result, and it returns an error status.
C18_BadRecordIsFatal ==
    \A v \in Vols :
        (MetadataLoaded(v) /\ \E i \in 1..Len(cases_metadata[v].cases) : BeyondAt(v, i)) =>
            /\ attempts[v] = <<>>
            /\ \A key \in write_bucket : key[2] # volumes[v].volume_folder
            /\ pc[v] \notin {"upload", "unlink", "return"}
            /\ ret[v].kind # "Processed"
            /\ (AtOrPastSplit(v) /\ pc[v] # "split") =>
                   /\ pc[v] \in {"except", "finally", "returned"}
                   /\ case_pdfs[v] = <<>>
                   /\ pc[v] \in {"finally", "returned"} => ret[v].kind = "Error"

\* A bad record preceded by a record that was split: the job ended with an
\* error status and nothing was uploaded.
C18_Witness ==
    \E v \in Vols :
        /\ pc[v] = "returned"
        /\ ret[v].kind = "Error"
        /\ \E i \in 2..Len(cases_metadata[v].cases) :
               /\ BeyondAt(v, i)
               /\ cases_metadata[v].cases[1].provenance.source # "Fastcase"
               /\ ~BeyondAt(v, 1)
        /\ write_bucket = {}

\* key is {reporter}/{volume}/case-pdfs/{file_name}.pdf for a record of
\* volume v that is not from Fastcase.
KeyOfKeptCase(key, v) ==
    \E i \in 1..Len(cases_metadata[v].cases) :
        /\ cases_metadata[v].cases[i].provenance.source # "Fastcase"
        /\ key = <<volumes[v].reporter_slug, volumes[v].volume_folder, "case-pdfs",
                   cases_metadata[v].cases[i].file_name>>

\* Every key written, and every key an upload was attempted to, belongs to a
\* non-excluded record of the volume whose job wrote it.
C19_KeysOfKeptCases ==
    /\ \A key \in write_bucket : \E v \in Vols : KeyOfKeptCase(key, v)
    /\ \A v \in Vols : \A a \in 1..Len(attempts[v]) :
           KeyOfKeptCase(attempts[v][a].key, v)

\* C19: every object of the write bucket has the key
\* {reporter}/{volume}/case-pdfs/{file_name}.pdf of a record of that volume
\* whose source is not Fastcase, in volumes that mix excluded and other
\* records too, and no step changes the read bucket.
C19_WritesOnlyKeptCases ==
    /\ [](C19_KeysOfKeptCases)
    /\ [][bucket' = bucket]_vars

\* A volume with an excluded and a non-excluded record, whose job returned
\* having written a key.
C19_Witness ==
    \E v \in Vols :
        /\ ret[v].kind = "Processed"
        /\ \E i, j \in 1..Len(cases_metadata[v].cases) :
               /\ cases_metadata[v].cases[i].provenance.source = "Fastcase"
               /\ cases_metadata[v].cases[j].provenance.source # "Fastcase"
               /\ UploadKey(volumes[v], cases_metadata[v].cases[j].file_name) \in write_bucket

\* C20: past a split_pdf call that returned, the result holds at least one
\* item, upload_case_pdfs was called on it before the return statement, and
\* no job returns the status "Processed 0 cases".
C20_SplitResultNonEmpty ==
    \A v \in Vols :
        /\ pc[v] \in {"upload", "unlink", "return"} => Len(case_pdfs[v]) >= 1
        /\ pc[v] = "return" =>
               /\ Len(attempts[v]) >= 1
               /\ Len(attempts[v]) = Len(case_pdfs[v])
        /\ ret[v].kind = "Processed" =>
               /\ ret[v].n >= 1
               /\ Len(attempts[v]) = ret[v].n

\* A job at its return statement after the upload stage ran, for a volume
\* that holds a Fastcase record as well.
C20_Witness ==
    \E v \in Vols :
        /\ pc[v] = "return"
        /\ Len(attempts[v]) >= 1
        /\ \E i \in 1..Len(cases_metadata[v].cases) :
               cases_metadata[v].cases[i].provenance.source = "Fastcase"

====
